---- MODULE Spec2Model ----
(***************************************************************************)
(* H2OFastTests (src/include/H2OFastTests.hpp): the registration,          *)
(* execution and status-classification engine of one scenario.             *)
(*                                                                         *)
(* One RegistryManager<ScenarioName> and its entry of the static registry  *)
(* are modelled.  run_tests() is cut at the points where user code runs:   *)
(* the test procedure (inside Test::run) and the observers' update()       *)
(* (inside notify).  The public operations are called one after another by *)
(* a single thread; procedures and observers do not call back into the     *)
(* manager (section 5 of the specification: run is not reentrant).         *)
(* A second scenario is kept aside (other) and exchanged with the first    *)
(* when the caller turns to it (cur names the one at hand).                *)
(*                                                                         *)
(* Besides the program's state the model keeps what a test harness would:  *)
(* the number of times each procedure was invoked (calls), the update()    *)
(* calls each observer was given (received), the calls the caller made on  *)
(* each observer handle (handle_hist), the number of run_tests() calls and  *)
(* the cases the latest run_tests() called run() on, in order (executed),  *)
(* and with each case the caller's variable its procedure hands to         *)
(* AssertThat, when it hands one (captured), and the class it was          *)
(* constructed as (made; kind is the class of the stored object).          *)
(*                                                                         *)
(* Values: durations are integers (ticks of the clock), texts are strings, *)
(* captured values of assertions are small integers (bool: 0/1, pointer:   *)
(* 0 = nullptr), exception kinds are type names.                           *)
(***************************************************************************)
EXTENDS Integers, Sequences, FiniteSets, TLC

VARIABLES
    registry,                    \* get_registry()[ScenarioName]: TestList
    run_,                        \* RegistryManager::run_
    exec_time_ms_accumulator_,   \* RegistryManager::exec_time_ms_accumulator_
    tests_passed_,               \* bucket: references (indices) into registry
    tests_failed_,
    tests_skipped_,
    tests_with_error_,
    list_observers_,             \* std::set of handles, as its iteration order
    pc,                          \* position inside run_tests(): idle when not running
    idx,                         \* the range-for position of run_tests()
    runs,                        \* number of run_tests() calls made so far
    escaped,                     \* the last run_tests() call ended by an exception
    received,                    \* per observer handle: the update() calls it got
    handle_hist,                 \* per observer handle: calls made on it by the caller
    executed,                    \* cases test->run() was called on, latest run_tests()
    cur,                         \* the scenario whose manager the variables above hold
    other,                       \* the manager and registry entry of the other scenario
    failure,                     \* a TestFailure object held by a catch clause
    whats                        \* the texts its what() calls returned, in order

vars == <<registry, run_, exec_time_ms_accumulator_, tests_passed_, tests_failed_,
          tests_skipped_, tests_with_error_, list_observers_, pc, idx, runs,
          escaped, received, handle_hist, executed, cur, other, failure, whats>>

(***************************************************************************)
(* Bounds of the model.                                                    *)
(***************************************************************************)
MaxCases == 2        \* cases registered in one scenario (Spec)
MaxRuns == 2         \* run_tests() calls
MaxElapsed == 1      \* ticks a procedure may take
MaxStart == 1        \* clock reading when a procedure starts
NumObservers == 2    \* observer handles (SpecObs)
ObsMaxCases == 2     \* cases registered in one scenario (SpecObs)
ObsMaxRuns == 1      \* run_tests() calls (SpecObs)

Observers == 1..NumObservers
\* Values an uninitialised Duration may hold.
IndeterminateDurations == {0, 7}

(***************************************************************************)
(* Exception kinds and catch matching.                                     *)
(***************************************************************************)
\* Base class of each kind ("" for none): a catch clause for H matches a
\* raised T when T is H or derives from H.
BaseOf(t) ==
    CASE t = "TestFailure" -> "GenericTestFailure"
      [] t = "GenericTestFailure" -> "std::exception"
      [] t = "std::domain_error" -> "std::logic_error"
      [] t = "std::logic_error" -> "std::exception"
      [] t = "std::runtime_error" -> "std::exception"
      [] OTHER -> ""

RECURSIVE IsA(_, _)
IsA(t, h) ==
    IF t = h THEN TRUE
    ELSE IF BaseOf(t) = "" THEN FALSE
    ELSE IsA(BaseOf(t), h)

NoExc == [type |-> "none", message |-> "", info |-> ""]

\* A raised std exception of kind t, or a raised value that is no std::exception.
Raised(t) ==
    [type |-> t,
     message |-> IF IsA(t, "std::exception") THEN "what:" \o t ELSE "",
     info |-> ""]

(***************************************************************************)
(* Assertion engine.                                                       *)
(***************************************************************************)
\* operator<< of LineInfo, for an initialised one.
LineInfoText == "t.cpp:7 f"

\* operator<< of the values the assertions are given: integers and bools as
\* digits, a pointer as its address, nullptr by name.
ShowInt(n) == ToString(n)
ShowPtr(p) == IF p = 0 THEN "0" ELSE "0x" \o ToString(p)
ShowNullptr == "nullptr"

\* additionalInfos<Streamable, Exception>::get for streamable values, given
\* as the text operator<< writes.
additionalInfos(failure_type, reached, expected, exception_name) ==
    IF exception_name # ""
    THEN IF failure_type = "exception"
         THEN "\t\t[EXPECTED Exception] " \o exception_name \o "\n"
         ELSE "\t\t\t[ERROR] \n"
    ELSE "\t\t\t[REACHED] " \o reached \o "\n" \o
         (CASE failure_type = "equal" ->
                 "\t\t\t[EXPECTED EQUAL TO] " \o expected \o "\n"
            [] failure_type = "different" ->
                 "\t\t\t[EXPECTED DIFFERENT FROM] " \o expected \o "\n"
            [] OTHER -> "\t\t\t[ERROR] \n")

\* FailureTest: raises a TestFailure when the condition is false.
FailureTest(condition, reached, expected, failure_type, message, lineInit, exception_name) ==
    IF ~condition
    THEN [type |-> "TestFailure",
          message |-> IF lineInit
                      THEN message \o "\t(" \o LineInfoText \o ")"
                      ELSE message,
          info |-> additionalInfos(failure_type, reached, expected, exception_name)]
    ELSE NoExc

\* TestFailure::what(): the exception object after the call, whose message_
\* has the additional information appended (message_ is mutable).
what_message_(e) ==
    IF e.type = "TestFailure"
    THEN [e EXCEPT !.message = e.message \o "\n" \o e.info]
    ELSE e

\* TestFailure::what() and std::exception::what(): the text returned.
what(e) == what_message_(e).message

Bool(b) == IF b THEN 1 ELSE 0

\* expectException<E>: the try block around expr_().
expectException(E, inner, message, lineInit) ==
    IF inner # "none" /\ IsA(inner, E)
    THEN NoExc
    ELSE FailureTest(FALSE, ShowInt(0), ShowInt(0), "exception", message, lineInit, E)

\* std::abs.
Abs(x) == IF x < 0 THEN -x ELSE x

\* std::abs(diff) <= std::abs(tolerance), diff = expected - expr_.
WithinTolerance(expr, expected, tolerance) ==
    Abs(expected - expr) <= Abs(tolerance)

\* operator<< of a double: p.nan names the operand that is a NaN, if any.
ShowDouble(p, operand, x) == IF p.nan = operand THEN "nan" ELSE ShowInt(x)

\* isEqualTo(double expected, double tolerance) and
\* isNotEqualTo(double notExpected, double tolerance): <= and > of doubles
\* are both false when std::abs(diff) or std::abs(tolerance) is a NaN.
\* isNotEqualTo shows the object named `expected` in scope (p.expected).
AsserterExpression_tolerance(p) ==
    LET ordered == p.nan = "none"
        reached == ShowDouble(p, "expr_", p.expr)
        expected == ShowDouble(p, "expected", p.arg)
    IN IF p.method = "isEqualTo"
       THEN FailureTest(ordered /\ WithinTolerance(p.expr, p.arg, p.tolerance),
                        reached, expected, "equal", p.message, p.line = 1, "")
       ELSE FailureTest(ordered /\ ~WithinTolerance(p.expr, p.arg, p.tolerance),
                        reached, p.expected, "different", p.message, p.line = 1, "")

\* Texts are sequences of character codes.  Variant: tolower leaving letters.
tolower_unchanged(c) == c

\* ::tolower in the "C" locale.
tolower(c) == IF c \in 65..90 THEN c + 32 ELSE c

\* std::transform(s.begin(), s.end(), s.begin(), ::tolower).
ToLower(s) == [k \in 1..Len(s) |-> tolower(s[k])]

\* operator<< of a text.
ShowChar(c) ==
    CASE c = 65 -> "A" [] c = 66 -> "B" [] c = 97 -> "a" [] c = 98 -> "b"
      [] OTHER -> "?"

RECURSIVE ShowText(_)
ShowText(s) == IF Len(s) = 0 THEN "" ELSE ShowChar(Head(s)) \o ShowText(Tail(s))

\* The value of expr_ when a text check returns or raises: the std::string
\* overloads lower-case expr_ itself, the const char* ones a copy of it.
AsserterExpression_text_expr(p) ==
    IF p.overload = "std::string" /\ p.ignoreCase THEN ToLower(p.text) ELSE p.text

\* isEqualTo / isNotEqualTo (const char* | std::string, bool ignoreCase).
\* isNotEqualTo shows the object named `expected` in scope (p.expected).
AsserterExpression_text(p) ==
    LET expected_str == IF p.ignoreCase THEN ToLower(p.textarg) ELSE p.textarg
        expr_str == IF p.ignoreCase THEN ToLower(p.text) ELSE p.text
        reached == ShowText(AsserterExpression_text_expr(p))
        expected == IF p.overload = "std::string"
                    THEN ShowText(expected_str) ELSE ShowText(p.textarg)
    IN IF p.method = "isEqualTo"
       THEN FailureTest(expected_str = expr_str, reached, expected,
                        "equal", p.message, p.line = 1, "")
       ELSE FailureTest(expected_str # expr_str, reached, p.expected,
                        "different", p.message, p.line = 1, "")

\* An assertion method of AsserterExpression applied to the captured expr_.
\* The isNotEqualTo overloads pass FailureTest the name `expected`, which
\* none of them declares: the header compiles only where an object of that
\* name is visible, and it is that object the failure shows (p.expected is
\* the text operator<< writes for it), not the compared value.
AsserterExpression(p) ==
    LET l == p.line = 1
        m == p.message
    IN CASE p.overload = "double" -> AsserterExpression_tolerance(p)
         [] p.overload \in {"const char*", "std::string"} -> AsserterExpression_text(p)
         [] p.method = "isTrue" ->
              FailureTest(p.expr # 0, ShowInt(Bool(p.expr # 0)), ShowInt(1),
                          "equal", m, l, "")
         [] p.method = "isFalse" ->
              FailureTest(~(p.expr # 0), ShowInt(Bool(~(p.expr # 0))), ShowInt(0),
                          "equal", m, l, "")
         [] p.method = "isNull" ->
              FailureTest(p.expr = 0, ShowPtr(p.expr), ShowNullptr, "equal", m, l, "")
         [] p.method = "isNotNull" ->
              FailureTest(p.expr # 0, ShowPtr(p.expr), ShowNullptr, "different", m, l, "")
         [] p.method = "fail" ->
              FailureTest(FALSE, ShowInt(0), ShowInt(0), "equal", m, l, "")
         [] p.method = "isEqualTo" ->
              FailureTest(p.expr = p.arg, ShowInt(p.expr), ShowInt(p.arg),
                          "equal", m, l, "")
         [] p.method = "isNotEqualTo" ->
              FailureTest(~(p.arg = p.expr), ShowInt(p.expr), p.expected,
                          "different", m, l, "")
         [] p.method = "expectException" ->
              expectException(p.E, p.inner, m, l)
         [] OTHER -> NoExc

(***************************************************************************)
(* Test procedures (TestFunctor): what a call of the procedure does.       *)
(***************************************************************************)
ProcReturn ==
    [op |-> "return", thrown |-> "none", method |-> "-", expr |-> 0, arg |-> 0,
     inner |-> "none", E |-> "-", message |-> "", line |-> 0,
     overload |-> "T", tolerance |-> 0, text |-> <<>>, textarg |-> <<>>,
     ignoreCase |-> FALSE, byref |-> FALSE, chain |-> <<>>, later |-> "none",
     nan |-> "none", expected |-> ""]

ProcThrow(t) == [ProcReturn EXCEPT !.op = "throw", !.thrown = t]

ProcCheck(method, expr, arg, line) ==
    [ProcReturn EXCEPT !.op = "assert", !.method = method, !.expr = expr,
                       !.arg = arg, !.message = "msg", !.line = line]

ProcExpect(E, inner, line) ==
    [ProcReturn EXCEPT !.op = "assert", !.method = "expectException", !.E = E,
                       !.inner = inner, !.message = "msg", !.line = line]

ProcTolerance(method, expr, arg, tolerance) ==
    [ProcReturn EXCEPT !.op = "assert", !.method = method, !.overload = "double",
                       !.expr = expr, !.arg = arg, !.tolerance = tolerance,
                       !.message = "msg"]

\* The same with one operand a NaN of the double type.
ProcToleranceNaN(method, expr, arg, tolerance, nan) ==
    [ProcTolerance(method, expr, arg, tolerance) EXCEPT !.nan = nan]

\* AssertThat(text).method(textarg, ignoreCase); byref: text is a variable of
\* the caller passed as an lvalue.
ProcText(method, overload, text, textarg, ignoreCase, byref) ==
    [ProcReturn EXCEPT !.op = "assert", !.method = method, !.overload = overload,
                       !.text = text, !.textarg = textarg,
                       !.ignoreCase = ignoreCase, !.byref = byref,
                       !.message = "msg"]

\* AssertThat(expr).method(message, line_info()) or without the line_info().
ProcCheckNamed(method, expr, message, line) ==
    [ProcCheck(method, expr, 0, line) EXCEPT !.message = message]

\* AssertThat(c1.expr).c1().andThat(c2.expr).c2()...
ProcChain(checks) == [ProcReturn EXCEPT !.op = "chain", !.chain = checks]

\* AssertThat(expr): an AsserterExpression holding expr.
AssertThat(expr) == expr

\* The value an EmptyExpression holds (nullptr).
EmptyExpression == 0

\* Variant: andThat keeps the value the expression holds.
andThat_keeping_value(held, expr) == held

\* andThat(expr): a new AsserterExpression holding expr.
andThat(held, expr) == expr

\* The checks of a chain from the k-th on, the k-th being called on an
\* expression that holds `held`; a check that raises ends the procedure,
\* one that returns gives an EmptyExpression.
\* Gives what was raised and the number of checks of the chain evaluated.
\* Variant: a check that raises does not end the procedure.
RECURSIVE ChainRun_to_the_end(_, _, _)
ChainRun_to_the_end(checks, k, held) ==
    IF k > Len(checks)
    THEN [raised |-> NoExc, evaluated |-> k - 1]
    ELSE LET e == AsserterExpression([checks[k] EXCEPT !.expr = held])
         IN IF k = Len(checks)
            THEN [raised |-> e, evaluated |-> k]
            ELSE LET rest == ChainRun_to_the_end(checks, k + 1,
                                                 andThat(EmptyExpression, checks[k + 1].expr))
                 IN IF rest.raised.type # "none"
                    THEN rest
                    ELSE [raised |-> e, evaluated |-> rest.evaluated]

RECURSIVE ChainRun(_, _, _)
ChainRun(checks, k, held) ==
    IF k > Len(checks)
    THEN [raised |-> NoExc, evaluated |-> k - 1]
    ELSE LET e == AsserterExpression([checks[k] EXCEPT !.expr = held])
         IN IF e.type # "none"
            THEN [raised |-> e, evaluated |-> k]
            ELSE IF k = Len(checks)
                 THEN [raised |-> NoExc, evaluated |-> k]
                 ELSE ChainRun(checks, k + 1, andThat(EmptyExpression, checks[k + 1].expr))

\* What the chain raises.
ChainFrom(checks, k, held) == ChainRun(checks, k, held).raised

\* The older generation's Assert (src/H2OFastTests/inc/H2OFastTests.h).
\* FailOnCondition: raises its TestFailure when the condition is false.
Old_FailOnCondition(condition, message, lineInit) ==
    IF ~condition
    THEN [type |-> "TestFailure",
          message |-> IF lineInit
                      THEN message \o "\t(" \o LineInfoText \o ")"
                      ELSE message,
          info |-> ""]
    ELSE NoExc

\* Assert::Fail.
Old_Fail(message, lineInit) == Old_FailOnCondition(FALSE, message, lineInit)

\* Assert::ExpectException<E>(functor): try { functor(); }
\* catch (E) { return; } catch (...) { Fail(message, lineInfo); }
Old_ExpectException(E, inner, message, lineInit) ==
    IF inner = "none"
    THEN NoExc
    ELSE IF IsA(inner, E)
    THEN NoExc
    ELSE Old_Fail(message, lineInit)

Old_ProcExpect(E, inner, line) ==
    [ProcReturn EXCEPT !.op = "Assert::ExpectException", !.E = E, !.inner = inner,
                       !.message = "msg", !.line = line]

\* (*test_holder_)(): the exception the call raises, NoExc when it returns.
Invoke(p) ==
    CASE p.op = "return" -> NoExc
      [] p.op = "Assert::ExpectException" ->
             Old_ExpectException(p.E, p.inner, p.message, p.line = 1)
      [] p.op = "throw" -> Raised(p.thrown)
      [] p.op = "chain" -> ChainFrom(p.chain, 1, AssertThat(p.chain[1].expr))
      [] OTHER -> AsserterExpression(p)

\* A procedure with state of its own: the first time it is called it raises
\* first, every time after it raises later ("none": it returns).
ProcFlaky(first, later) ==
    [ProcReturn EXCEPT !.op = "flaky", !.thrown = first, !.later = later]

\* The call of a procedure that was called n times before.
InvokeCall(p, n) ==
    IF p.op = "flaky"
    THEN IF n = 0 THEN Raised(p.thrown) ELSE Raised(p.later)
    ELSE Invoke(p)

\* Procedures registered in Spec.
MainProcs ==
    {ProcReturn, ProcThrow("std::runtime_error"), ProcThrow("int"),
     ProcCheck("isEqualTo", 1, 0, 0), ProcFlaky("std::runtime_error", "none")}

\* What operator<< writes for the object named `expected` that is visible
\* where the header is compiled.
ExpectedInScope == {"42", "ab"}

\* The procedures of S, those calling isNotEqualTo compiled with each such
\* object in scope (the other methods do not name it).
Declared(S) ==
    {p \in S : p.method # "isNotEqualTo"}
    \cup {[p EXCEPT !.expected = x] :
             p \in {q \in S : q.method = "isNotEqualTo"}, x \in ExpectedInScope}

\* Procedures of the assertion specification: one assertion call each.
UnaryMethods == {"isTrue", "isFalse", "isNull", "isNotNull"}
BinaryMethods == {"isEqualTo", "isNotEqualTo"}
ExpectedKinds == {"std::domain_error", "std::exception"}
InnerKinds == {"none", "std::domain_error", "std::runtime_error", "int"}
CheckProcs ==
    {ProcCheck(m, a, 0, l) : m \in UnaryMethods, a \in 0..1, l \in 0..1}
    \cup Declared({ProcCheck(m, a, b, l) :
                      m \in BinaryMethods, a \in 0..1, b \in 0..1, l \in 0..1})
    \cup {ProcCheck("fail", 0, 0, l) : l \in 0..1}
    \cup {ProcExpect(E, i, l) : E \in ExpectedKinds, i \in InnerKinds, l \in 0..1}
    \cup {ProcExpect(E, "TestFailure", l) : E \in ExpectedKinds, l \in 0..1}

\* Procedures of the tolerance checks: values, and tolerances of both signs.
ToleranceProcs ==
    Declared({ProcTolerance(m, a, b, t) : m \in BinaryMethods, a \in 0..2, b \in 0..2,
                                          t \in {-1, 0, 1}}
             \cup {ProcToleranceNaN(m, 0, 0, 0, n) :
                      m \in BinaryMethods, n \in {"expr_", "expected", "tolerance"}})

\* Procedures of the exact checks: isEqualTo(expected), isNotEqualTo(notExpected).
EqualityProcs ==
    Declared({ProcCheck(m, a, b, 0) : m \in BinaryMethods, a \in 0..1, b \in 0..1})

\* Procedures of the text checks.
Texts == {<<97, 98>>, <<65, 66>>, <<65, 98>>, <<98, 97>>, <<97>>}
TextProcs ==
    Declared({ProcText(m, o, a, b, c, r) :
                 m \in BinaryMethods, o \in {"const char*", "std::string"},
                 a \in Texts, b \in Texts, c \in BOOLEAN, r \in BOOLEAN})

\* Procedures made of two or three chained checks, in every order.
ChainChecks ==
    {ProcCheck(m, a, 0, 0) : m \in {"isTrue", "isFalse"}, a \in 0..1}
    \cup {ProcCheck("isEqualTo", a, 1, 0) : a \in 0..1}
ChainProcs ==
    {ProcChain(<<a, b>>) : a \in ChainChecks, b \in ChainChecks}
    \cup {ProcChain(<<a, b, c>>) : a \in ChainChecks, b \in ChainChecks, c \in ChainChecks}

\* Procedures made of two or three checks, each with a message of its own
\* and with or without a LineInfo.
SequenceProcs ==
    {ProcChain(<<ProcCheckNamed("isTrue", a, "first", k),
                 ProcCheckNamed("isTrue", b, "second", l)>>) :
        a \in 0..1, b \in 0..1, k \in 0..1, l \in 0..1}
    \cup {ProcChain(<<ProcCheckNamed("isTrue", a, "first", k),
                      ProcCheckNamed("isTrue", b, "second", l),
                      ProcCheckNamed("isTrue", c, "third", m)>>) :
             a \in 0..1, b \in 0..1, c \in 0..1, k \in 0..1, l \in 0..1, m \in 0..1}

(***************************************************************************)
(* Test and SkippedTest.                                                   *)
(***************************************************************************)
\* Test::Test(label, test): status_(NONE); exec_time_ms_ is not initialised.
NewTest(kind, proc, indeterminate) ==
    [kind |-> kind, proc |-> proc, status_ |-> "NONE",
     exec_time_ms_ |-> indeterminate, failure_reason_ |-> "", error_ |-> "",
     calls |-> 0, captured |-> proc.text, made |-> kind, evaluated |-> 0]

\* Variants: the std::exception clause written first; no std::exception clause.
CatchClauses_exception_first == <<"std::exception", "GenericTestFailure", "...">>

CatchClauses_without_exception == <<"GenericTestFailure", "...">>

\* The catch clauses of Test::run_private, in source order.
CatchClauses == <<"GenericTestFailure", "std::exception", "...">>

Catches(clause, e) == clause = "..." \/ IsA(e.type, clause)

\* The first clause that matches the raised exception.
Handler(e) ==
    LET k == CHOOSE i \in 1..Len(CatchClauses) :
                 /\ Catches(CatchClauses[i], e)
                 /\ \A j \in 1..(i - 1) : ~Catches(CatchClauses[j], e)
    IN CatchClauses[k]

\* Variant: the two clock readings subtracted the other way round.
Elapsed_reversed(start, d) == start - (start + d)

\* now() - start, the clock having advanced by the time the call took.
Elapsed(start, d) == (start + d) - start

\* Test::run_private.
Test_run_private(t, start, d) ==
    LET e == InvokeCall(t.proc, t.calls)
        called == [t EXCEPT !.calls = t.calls + 1,
                            !.captured = IF t.proc.byref
                                         THEN AsserterExpression_text_expr(t.proc)
                                         ELSE @,
                            !.evaluated =
                                IF t.proc.op = "chain"
                                THEN ChainRun(t.proc.chain, 1,
                                              AssertThat(t.proc.chain[1].expr)).evaluated
                                ELSE @]
        classified ==
            IF e.type = "none"
            THEN [called EXCEPT !.status_ = "PASSED"]
            ELSE CASE Handler(e) = "GenericTestFailure" ->
                        [called EXCEPT !.status_ = "FAILED", !.failure_reason_ = what(e)]
                   [] Handler(e) = "std::exception" ->
                        [called EXCEPT !.status_ = "ERROR", !.error_ = what(e)]
                   [] OTHER ->
                        [called EXCEPT !.status_ = "ERROR", !.error_ = "Unkown error"]
    IN [classified EXCEPT !.exec_time_ms_ = Elapsed(start, d)]

\* SkippedTest::run_private.
SkippedTest_run_private(t) == [t EXCEPT !.status_ = "SKIPPED"]

\* Variant: run_private is not virtual (the case is handled as a plain Test).
Test_run_static(t, start, d) == Test_run_private(t, start, d)

\* Test::run(): virtual dispatch on the dynamic type.
Test_run(t, start, d) ==
    IF t.kind = "SkippedTest"
    THEN SkippedTest_run_private(t)
    ELSE Test_run_private(t, start, d)

(***************************************************************************)
(* IRegistryObservable.                                                    *)
(***************************************************************************)
\* Variant: a multiset, which keeps equal handles.
SetInsert_multiset(s, o) ==
    SelectSeq(s, LAMBDA x : x < o) \o <<o>> \o SelectSeq(s, LAMBDA x : x >= o)

\* std::set::insert: keeps the handles ordered and distinct.
SetInsert(s, o) ==
    IF \E k \in 1..Len(s) : s[k] = o
    THEN s
    ELSE SelectSeq(s, LAMBDA x : x < o) \o <<o>> \o SelectSeq(s, LAMBDA x : x > o)

\* Variant: erase that removes nothing.
SetErase_nothing(s, o) == s

\* std::set::erase(key).
SetErase(s, o) == SelectSeq(s, LAMBDA x : x # o)

\* Variant: the loop leaves after the first observer.
NotifiedPositions_first_only(s, r) == IF Len(s) = 0 THEN {} ELSE {1}

\* notify(): positions of list_observers_ whose update() is called, in
\* iteration order; r is the position whose update() raises (0: none does),
\* which ends the loop.
NotifiedPositions(s, r) == IF r = 0 THEN 1..Len(s) ELSE 1..r

\* What update() is given: the case and what its getters return.
TestInfo(i) ==
    [run |-> runs, case |-> i, status |-> registry[i].status_,
     exec_time |-> registry[i].exec_time_ms_]

\* The observers' logs after notify(TestInfo{*test}).
Notify(s, i, r) ==
    [o \in Observers |->
        received[o] \o
        [n \in 1..Cardinality({k \in NotifiedPositions(s, r) : s[k] = o}) |-> TestInfo(i)]]

(***************************************************************************)
(* RegistryManager: accessors.                                             *)
(***************************************************************************)
\* Variant: the count read without looking at run_.
getPassedCount_ungated == Len(tests_passed_)

getPassedCount == IF run_ THEN Len(tests_passed_) ELSE 0
getFailedCount == IF run_ THEN Len(tests_failed_) ELSE 0
getSkippedCount == IF run_ THEN Len(tests_skipped_) ELSE 0
getWithErrorCount == IF run_ THEN Len(tests_with_error_) ELSE 0
getAllTestsCount == IF run_ THEN Len(registry) ELSE 0
getAllTestsExecTimeMs == IF run_ THEN exec_time_ms_accumulator_ ELSE 0
getPassedTests == tests_passed_
getFailedTests == tests_failed_
getSkippedTests == tests_skipped_
getWithErrorTests == tests_with_error_
getAllTests == registry

(***************************************************************************)
(* RegistryManager: operations.                                            *)
(***************************************************************************)
\* A RegistryManager as constructed, with the (empty) registry entry of its key.
EmptyManager ==
    [registry |-> <<>>, run_ |-> FALSE, exec_time_ms_accumulator_ |-> 0,
     tests_passed_ |-> <<>>, tests_failed_ |-> <<>>, tests_skipped_ |-> <<>>,
     tests_with_error_ |-> <<>>, list_observers_ |-> <<>>]

Init ==
    /\ registry = <<>>
    /\ run_ = FALSE
    /\ exec_time_ms_accumulator_ = 0
    /\ tests_passed_ = <<>>
    /\ tests_failed_ = <<>>
    /\ tests_skipped_ = <<>>
    /\ tests_with_error_ = <<>>
    /\ list_observers_ = <<>>
    /\ pc = "idle"
    /\ idx = 0
    /\ runs = 0
    /\ escaped = FALSE
    /\ received = [o \in Observers |-> <<>>]
    /\ handle_hist = [o \in Observers |-> "never"]
    /\ executed = <<>>
    /\ cur = "A"
    /\ failure = NoExc
    /\ whats = <<>>
    /\ other = EmptyManager

\* Variant: the case is put at the front of the list.
add_test_at_front(proc, indeterminate, bound) ==
    /\ pc = "idle"
    /\ Len(registry) < bound
    /\ registry' = <<NewTest("Test", proc, indeterminate)>> \o registry
    /\ UNCHANGED <<run_, exec_time_ms_accumulator_, tests_passed_, tests_failed_,
                   tests_skipped_, tests_with_error_, list_observers_, pc, idx,
                   runs, escaped, received, handle_hist>>
    /\ UNCHANGED executed
    /\ UNCHANGED <<cur, other, failure, whats>>

\* add_test(func): push_back(make_test(func)).
add_test(proc, indeterminate, bound) ==
    /\ pc = "idle"
    /\ Len(registry) < bound
    /\ registry' = Append(registry, NewTest("Test", proc, indeterminate))
    /\ UNCHANGED <<run_, exec_time_ms_accumulator_, tests_passed_, tests_failed_,
                   tests_skipped_, tests_with_error_, list_observers_, pc, idx,
                   runs, escaped, received, handle_hist>>
    /\ UNCHANGED executed
    /\ UNCHANGED <<cur, other, failure, whats>>

\* skip_test(func): push_back(make_skipped_test(func)).
skip_test(proc, indeterminate, bound) ==
    /\ pc = "idle"
    /\ Len(registry) < bound
    /\ registry' = Append(registry, NewTest("SkippedTest", proc, indeterminate))
    /\ UNCHANGED <<run_, exec_time_ms_accumulator_, tests_passed_, tests_failed_,
                   tests_skipped_, tests_with_error_, list_observers_, pc, idx,
                   runs, escaped, received, handle_hist>>
    /\ UNCHANGED executed
    /\ UNCHANGED <<cur, other, failure, whats>>

\* addObserver(observer).
addObserver(o) ==
    /\ pc = "idle"
    /\ list_observers_' = SetInsert(list_observers_, o)
    /\ handle_hist' = [handle_hist EXCEPT
           ![o] = IF @ \in {"added", "readded"} THEN "readded" ELSE "added"]
    /\ UNCHANGED <<registry, run_, exec_time_ms_accumulator_, tests_passed_,
                   tests_failed_, tests_skipped_, tests_with_error_, pc, idx,
                   runs, escaped, received>>
    /\ UNCHANGED executed
    /\ UNCHANGED <<cur, other, failure, whats>>

\* removeObserver(observer).
removeObserver(o) ==
    /\ pc = "idle"
    /\ list_observers_' = SetErase(list_observers_, o)
    /\ handle_hist' = [handle_hist EXCEPT
           ![o] = IF @ = "never" THEN "never" ELSE "removed"]
    /\ UNCHANGED <<registry, run_, exec_time_ms_accumulator_, tests_passed_,
                   tests_failed_, tests_skipped_, tests_with_error_, pc, idx,
                   runs, escaped, received>>
    /\ UNCHANGED executed
    /\ UNCHANGED <<cur, other, failure, whats>>

\* Variant: run_tests() starts by clearing run_.
run_tests_call_clearing_flag(bound) ==
    /\ pc = "idle"
    /\ runs < bound
    /\ runs' = runs + 1
    /\ pc' = "loop"
    /\ idx' = 1
    /\ escaped' = FALSE
    /\ run_' = FALSE
    /\ UNCHANGED <<registry, exec_time_ms_accumulator_, tests_passed_,
                   tests_failed_, tests_skipped_, tests_with_error_,
                   list_observers_, received, handle_hist>>
    /\ executed' = <<>>
    /\ UNCHANGED <<cur, other, failure, whats>>

\* run_tests() is called: the range-for starts at the first case.
run_tests_call(bound) ==
    /\ pc = "idle"
    /\ runs < bound
    /\ runs' = runs + 1
    /\ pc' = "loop"
    /\ idx' = 1
    /\ escaped' = FALSE
    /\ UNCHANGED <<registry, run_, exec_time_ms_accumulator_, tests_passed_,
                   tests_failed_, tests_skipped_, tests_with_error_,
                   list_observers_, received, handle_hist>>
    /\ executed' = <<>>
    /\ UNCHANGED <<cur, other, failure, whats>>

\* test->run(); exec_time_ms_accumulator_ += test->getExecTimeMs();
run_tests_run(start, d) ==
    /\ pc = "loop"
    /\ idx <= Len(registry)
    /\ LET t == Test_run(registry[idx], start, d)
       IN /\ registry' = [registry EXCEPT ![idx] = t]
          /\ exec_time_ms_accumulator_' = exec_time_ms_accumulator_ + t.exec_time_ms_
    /\ pc' = "notify"
    /\ UNCHANGED <<run_, tests_passed_, tests_failed_, tests_skipped_,
                   tests_with_error_, list_observers_, idx, runs, escaped,
                   received, handle_hist>>
    /\ executed' = Append(executed, idx)
    /\ UNCHANGED <<cur, other, failure, whats>>

\* notify(TestInfo{ *test }); an exception of update() leaves run_tests().
run_tests_notify(r) ==
    /\ pc = "notify"
    /\ r \in 0..Len(list_observers_)
    /\ received' = Notify(list_observers_, idx, r)
    /\ IF r # 0
       THEN /\ pc' = "idle"
            /\ idx' = 0
            /\ escaped' = TRUE
       ELSE /\ pc' = "file"
            /\ UNCHANGED <<idx, escaped>>
    /\ UNCHANGED <<registry, run_, exec_time_ms_accumulator_, tests_passed_,
                   tests_failed_, tests_skipped_, tests_with_error_,
                   list_observers_, runs, handle_hist>>
    /\ UNCHANGED executed
    /\ UNCHANGED <<cur, other, failure, whats>>

\* Variant: the switch has no case for ERROR (it falls to default).
run_tests_file_without_error_case ==
    /\ pc = "file"
    /\ LET s == registry[idx].status_
       IN /\ tests_passed_' =
                IF s = "PASSED" THEN Append(tests_passed_, idx) ELSE tests_passed_
          /\ tests_failed_' =
                IF s = "FAILED" THEN Append(tests_failed_, idx) ELSE tests_failed_
          /\ tests_skipped_' =
                IF s = "SKIPPED" THEN Append(tests_skipped_, idx) ELSE tests_skipped_
          /\ tests_with_error_' = tests_with_error_
    /\ pc' = "loop"
    /\ idx' = idx + 1
    /\ UNCHANGED <<registry, run_, exec_time_ms_accumulator_, list_observers_,
                   runs, escaped, received, handle_hist>>
    /\ UNCHANGED executed
    /\ UNCHANGED <<cur, other, failure, whats>>

\* Variant: a case that is FAILED or ERROR ends the loop.
run_tests_file_leaving_on_failure ==
    /\ pc = "file"
    /\ LET s == registry[idx].status_
       IN /\ tests_passed_' =
                IF s = "PASSED" THEN Append(tests_passed_, idx) ELSE tests_passed_
          /\ tests_failed_' =
                IF s = "FAILED" THEN Append(tests_failed_, idx) ELSE tests_failed_
          /\ tests_skipped_' =
                IF s = "SKIPPED" THEN Append(tests_skipped_, idx) ELSE tests_skipped_
          /\ tests_with_error_' =
                IF s = "ERROR" THEN Append(tests_with_error_, idx) ELSE tests_with_error_
          /\ idx' = IF s \in {"FAILED", "ERROR"} THEN Len(registry) + 1 ELSE idx + 1
    /\ pc' = "loop"
    /\ UNCHANGED <<registry, run_, exec_time_ms_accumulator_, list_observers_,
                   runs, escaped, received, handle_hist>>
    /\ UNCHANGED executed
    /\ UNCHANGED <<cur, other, failure, whats>>

\* switch (test->getStatus()): push_back(std::cref(*test)) into one bucket.
run_tests_file ==
    /\ pc = "file"
    /\ LET s == registry[idx].status_
       IN /\ tests_passed_' =
                IF s = "PASSED" THEN Append(tests_passed_, idx) ELSE tests_passed_
          /\ tests_failed_' =
                IF s = "FAILED" THEN Append(tests_failed_, idx) ELSE tests_failed_
          /\ tests_skipped_' =
                IF s = "SKIPPED" THEN Append(tests_skipped_, idx) ELSE tests_skipped_
          /\ tests_with_error_' =
                IF s = "ERROR" THEN Append(tests_with_error_, idx) ELSE tests_with_error_
    /\ pc' = "loop"
    /\ idx' = idx + 1
    /\ UNCHANGED <<registry, run_, exec_time_ms_accumulator_, list_observers_,
                   runs, escaped, received, handle_hist>>
    /\ UNCHANGED executed
    /\ UNCHANGED <<cur, other, failure, whats>>

\* Variant: run_ is set inside the loop body only (not when the list is empty).
run_tests_return_flag_in_loop ==
    /\ pc = "loop"
    /\ idx > Len(registry)
    /\ run_' = (run_ \/ Len(registry) > 0)
    /\ pc' = "idle"
    /\ idx' = 0
    /\ UNCHANGED <<registry, exec_time_ms_accumulator_, tests_passed_,
                   tests_failed_, tests_skipped_, tests_with_error_,
                   list_observers_, runs, escaped, received, handle_hist>>
    /\ UNCHANGED executed
    /\ UNCHANGED <<cur, other, failure, whats>>

\* The loop is over: run_ = true; run_tests() returns.
run_tests_return ==
    /\ pc = "loop"
    /\ idx > Len(registry)
    /\ run_' = TRUE
    /\ pc' = "idle"
    /\ idx' = 0
    /\ UNCHANGED <<registry, exec_time_ms_accumulator_, tests_passed_,
                   tests_failed_, tests_skipped_, tests_with_error_,
                   list_observers_, runs, escaped, received, handle_hist>>
    /\ UNCHANGED executed
    /\ UNCHANGED <<cur, other, failure, whats>>

\* Clock readings at the start of a procedure, and the ticks it may take.
StartReadings == {0, MaxStart}
ElapsedTicks == {0, MaxElapsed}

run_tests_step ==
    \/ run_tests_call(MaxRuns)
    \/ \E start \in StartReadings, d \in ElapsedTicks : run_tests_run(start, d)
    \/ \E r \in 0..NumObservers : run_tests_notify(r)
    \/ run_tests_file
    \/ run_tests_return

(***************************************************************************)
(* Spec: any sequence of registrations and runs, no observer attached.      *)
(***************************************************************************)
Next ==
    \/ \E p \in MainProcs, g \in IndeterminateDurations : add_test(p, g, MaxCases)
    \/ \E p \in MainProcs, g \in IndeterminateDurations : skip_test(p, g, MaxCases)
    \/ run_tests_step

Spec == Init /\ [][Next]_vars

(***************************************************************************)
(* SpecObs: the observer channel.  Registration, then any sequence of      *)
(* attach, detach and runs; the procedures return at once.                 *)
(***************************************************************************)
NextObs ==
    \/ runs = 0 /\ \E g \in IndeterminateDurations : add_test(ProcReturn, g, ObsMaxCases)
    \/ runs = 0 /\ \E g \in IndeterminateDurations : skip_test(ProcReturn, g, ObsMaxCases)
    \/ \E o \in Observers : addObserver(o)
    \/ \E o \in Observers : removeObserver(o)
    \/ run_tests_call(ObsMaxRuns)
    \/ run_tests_run(0, 0)
    \/ \E r \in 0..NumObservers : run_tests_notify(r)
    \/ run_tests_file
    \/ run_tests_return

SpecObs == Init /\ [][NextObs]_vars

\* SpecLive: SpecObs with a run in progress always taking its next step: a
\* procedure and an update() return or raise, and the statements of
\* run_tests() between them are executed one after the other.
RunInProgress ==
    \/ run_tests_run(0, 0)
    \/ \E r \in 0..NumObservers : run_tests_notify(r)
    \/ run_tests_file
    \/ run_tests_return

SpecLive == Init /\ [][NextObs]_vars /\ WF_vars(RunInProgress)

(***************************************************************************)
(* SpecTwo: two scenarios, A and B, each with its RegistryManager and its  *)
(* entry of the registry map; the caller registers into, attaches to and   *)
(* runs the one at hand, and turns from one to the other between calls.    *)
(***************************************************************************)
TwoMaxCases == 1     \* cases registered in each scenario (SpecTwo)
TwoMaxRuns == 2      \* run_tests() calls, both scenarios together (SpecTwo)

Scenarios == {"A", "B"}

\* Variant: every scenario has the same key.
type_index_same(name) == 1

\* type_helper<ScenarioName>::type_index(): std::type_index(typeid(Type)).
type_index(name) == IF name = "A" THEN 1 ELSE 2

\* The manager at hand with the entry get_registry()[key] of its scenario.
ManagerAtHand ==
    [registry |-> registry, run_ |-> run_,
     exec_time_ms_accumulator_ |-> exec_time_ms_accumulator_,
     tests_passed_ |-> tests_passed_, tests_failed_ |-> tests_failed_,
     tests_skipped_ |-> tests_skipped_, tests_with_error_ |-> tests_with_error_,
     list_observers_ |-> list_observers_]

\* The caller turns to the manager of scenario s: its members are those of
\* that object, its list is get_registry()[type_index(s)].
select_scenario(s) ==
    /\ pc = "idle"
    /\ s # cur
    /\ cur' = s
    /\ registry' = IF type_index(s) = type_index(cur) THEN registry ELSE other.registry
    /\ run_' = other.run_
    /\ exec_time_ms_accumulator_' = other.exec_time_ms_accumulator_
    /\ tests_passed_' = other.tests_passed_
    /\ tests_failed_' = other.tests_failed_
    /\ tests_skipped_' = other.tests_skipped_
    /\ tests_with_error_' = other.tests_with_error_
    /\ list_observers_' = other.list_observers_
    /\ other' = ManagerAtHand
    /\ UNCHANGED <<pc, idx, runs, escaped, received, handle_hist, executed,
                   failure, whats>>

NextTwo ==
    \/ \E g \in IndeterminateDurations \ {0} : add_test(ProcThrow("int"), g, TwoMaxCases)
    \/ \E g \in IndeterminateDurations \ {0} : skip_test(ProcReturn, g, TwoMaxCases)
    \/ addObserver(1)
    \/ removeObserver(1)
    \/ run_tests_call(TwoMaxRuns)
    \/ run_tests_run(0, MaxElapsed)
    \/ run_tests_notify(0)
    \/ run_tests_file
    \/ run_tests_return
    \/ \E s \in Scenarios : select_scenario(s)

SpecTwo == Init /\ [][NextTwo]_vars

(***************************************************************************)
(* SpecChecks: a scenario whose describe() registered one case, the        *)
(* procedure of which makes one assertion call; then runs.                 *)
(***************************************************************************)
InitChecks ==
    /\ registry \in {<<NewTest("Test", p, g)>> :
                        p \in CheckProcs, g \in IndeterminateDurations}
    /\ run_ = FALSE
    /\ exec_time_ms_accumulator_ = 0
    /\ tests_passed_ = <<>>
    /\ tests_failed_ = <<>>
    /\ tests_skipped_ = <<>>
    /\ tests_with_error_ = <<>>
    /\ list_observers_ = <<>>
    /\ pc = "idle"
    /\ idx = 0
    /\ runs = 0
    /\ escaped = FALSE
    /\ received = [o \in Observers |-> <<>>]
    /\ handle_hist = [o \in Observers |-> "never"]
    /\ executed = <<>>
    /\ cur = "A"
    /\ failure = NoExc
    /\ whats = <<>>
    /\ other = EmptyManager

SpecChecks == InitChecks /\ [][run_tests_step]_vars

(***************************************************************************)
(* SpecAsserts: as SpecChecks, the procedure being a tolerance check, a    *)
(* text check or a chain of checks.                                        *)
(***************************************************************************)
AssertProcs ==
    ToleranceProcs \cup TextProcs \cup ChainProcs \cup EqualityProcs \cup SequenceProcs

InitAsserts ==
    /\ registry \in {<<NewTest("Test", p, g)>> :
                        p \in AssertProcs, g \in IndeterminateDurations}
    /\ run_ = FALSE
    /\ exec_time_ms_accumulator_ = 0
    /\ tests_passed_ = <<>>
    /\ tests_failed_ = <<>>
    /\ tests_skipped_ = <<>>
    /\ tests_with_error_ = <<>>
    /\ list_observers_ = <<>>
    /\ pc = "idle"
    /\ idx = 0
    /\ runs = 0
    /\ escaped = FALSE
    /\ received = [o \in Observers |-> <<>>]
    /\ handle_hist = [o \in Observers |-> "never"]
    /\ executed = <<>>
    /\ cur = "A"
    /\ failure = NoExc
    /\ whats = <<>>
    /\ other = EmptyManager

SpecAsserts == InitAsserts /\ [][run_tests_step]_vars

(***************************************************************************)
(* The older generation, src/H2OFastTests/inc/H2OFastTests.h.  Its         *)
(* RegistryManager holds the same members and its run_tests() has the same *)
(* loop; the registry is a std::vector<Test> (cases stored by value), the  *)
(* cases are built by make_test / make_skipped_test and given to           *)
(* push_back, and Test::run_private has two catch clauses.                 *)
(***************************************************************************)
\* Test(Test&&) applied to an object of a class derived from Test: the new
\* object is a Test.
Old_Test_move(t) == [t EXCEPT !.kind = "Test"]

\* test_t make_test(func) and test_t make_skipped_test(func): the latter
\* returns a SkippedTest as a test_t value.
Old_make_test(proc, indeterminate) == NewTest("Test", proc, indeterminate)
Old_make_skipped_test(proc, indeterminate) ==
    Old_Test_move(NewTest("SkippedTest", proc, indeterminate))

\* The catch clauses of the older Test::run_private, in source order.
Old_CatchClauses == <<"TestFailure", "std::exception">>

Old_Caught(e) == \E k \in 1..Len(Old_CatchClauses) : Catches(Old_CatchClauses[k], e)

\* The older Test::run_private; an exception no clause catches leaves it
\* before exec_time_ms_ is assigned.
Old_Test_run_private(t, start, d) ==
    LET e == InvokeCall(t.proc, t.calls)
        called == [t EXCEPT !.calls = t.calls + 1]
    IN IF e.type = "none"
       THEN [called EXCEPT !.status_ = "PASSED", !.exec_time_ms_ = Elapsed(start, d)]
       ELSE IF Catches(Old_CatchClauses[1], e)
       THEN [called EXCEPT !.status_ = "FAILED", !.failure_reason_ = e.message,
                           !.exec_time_ms_ = Elapsed(start, d)]
       ELSE IF Catches(Old_CatchClauses[2], e)
       THEN [called EXCEPT !.status_ = "ERROR", !.error_ = e.message,
                           !.exec_time_ms_ = Elapsed(start, d)]
       ELSE called

\* Test::run(): virtual dispatch on the class of the stored object.
Old_Test_run(t, start, d) ==
    IF t.kind = "SkippedTest"
    THEN SkippedTest_run_private(t)
    ELSE Old_Test_run_private(t, start, d)

\* A bucket of the older generation holds addresses of elements of the
\* vector (&test), given here as positions; Dangling is an address into
\* storage the vector has released.
Dangling == 0

\* The bucket b after the vector has moved its elements to new storage.
Old_Released(b) == [k \in 1..Len(b) |-> Dangling]

\* push_back(test_t&& test): the case is moved into the vector.  The vector
\* reallocates when its size has reached its capacity (which the growth
\* policy of the library and the storage function decide): the addresses
\* the buckets hold then point into released storage.
Old_push_back(test, bound, reallocates) ==
    /\ pc = "idle"
    /\ Len(registry) < bound
    /\ registry' = Append(registry, Old_Test_move(test))
    /\ IF reallocates
       THEN /\ tests_passed_' = Old_Released(tests_passed_)
            /\ tests_failed_' = Old_Released(tests_failed_)
            /\ tests_skipped_' = Old_Released(tests_skipped_)
            /\ tests_with_error_' = Old_Released(tests_with_error_)
       ELSE UNCHANGED <<tests_passed_, tests_failed_, tests_skipped_,
                        tests_with_error_>>
    /\ UNCHANGED <<run_, exec_time_ms_accumulator_, list_observers_, pc, idx,
                   runs, escaped, received, handle_hist, executed>>
    /\ UNCHANGED <<cur, other, failure, whats>>

\* test.run(); exec_time_ms_accumulator_ += test.getExecTimeMs(); an
\* exception that leaves run() leaves run_tests().
Old_run_tests_run(start, d) ==
    /\ pc = "loop"
    /\ idx <= Len(registry)
    /\ LET t == Old_Test_run(registry[idx], start, d)
           e == InvokeCall(registry[idx].proc, registry[idx].calls)
           leaves == registry[idx].kind = "Test" /\ e.type # "none" /\ ~Old_Caught(e)
       IN /\ registry' = [registry EXCEPT ![idx] = t]
          /\ IF leaves
             THEN /\ pc' = "idle"
                  /\ idx' = 0
                  /\ escaped' = TRUE
                  /\ UNCHANGED exec_time_ms_accumulator_
             ELSE /\ pc' = "notify"
                  /\ exec_time_ms_accumulator_' =
                        exec_time_ms_accumulator_ + t.exec_time_ms_
                  /\ UNCHANGED <<idx, escaped>>
    /\ executed' = Append(executed, idx)
    /\ UNCHANGED <<run_, tests_passed_, tests_failed_, tests_skipped_,
                   tests_with_error_, list_observers_, runs, received, handle_hist>>
    /\ UNCHANGED <<cur, other, failure, whats>>

\* Procedures registered in SpecOld.
OldProcs == {ProcReturn, ProcThrow("std::runtime_error"), ProcThrow("int")}

NextOld ==
    \/ \E p \in OldProcs, g \in IndeterminateDurations, m \in BOOLEAN :
          Old_push_back(Old_make_test(p, g), MaxCases, m)
    \/ \E p \in OldProcs, g \in IndeterminateDurations, m \in BOOLEAN :
          Old_push_back(Old_make_skipped_test(p, g), MaxCases, m)
    \/ run_tests_call(MaxRuns)
    \/ \E start \in StartReadings, d \in ElapsedTicks : Old_run_tests_run(start, d)
    \/ \E r \in 0..NumObservers : run_tests_notify(r)
    \/ run_tests_file
    \/ run_tests_return

SpecOld == Init /\ [][NextOld]_vars

\* SpecOldChecks: an older-generation scenario constructed with one case,
\* the procedure of which makes one Assert::ExpectException call; then runs.
OldCheckProcs ==
    {Old_ProcExpect(E, i, l) : E \in ExpectedKinds, i \in InnerKinds, l \in 0..1}

InitOldChecks ==
    /\ registry \in {<<Old_Test_move(Old_make_test(p, g))>> :
                        p \in OldCheckProcs, g \in IndeterminateDurations}
    /\ run_ = FALSE
    /\ exec_time_ms_accumulator_ = 0
    /\ tests_passed_ = <<>>
    /\ tests_failed_ = <<>>
    /\ tests_skipped_ = <<>>
    /\ tests_with_error_ = <<>>
    /\ list_observers_ = <<>>
    /\ pc = "idle"
    /\ idx = 0
    /\ runs = 0
    /\ escaped = FALSE
    /\ received = [o \in Observers |-> <<>>]
    /\ handle_hist = [o \in Observers |-> "never"]
    /\ executed = <<>>
    /\ cur = "A"
    /\ failure = NoExc
    /\ whats = <<>>
    /\ other = EmptyManager

NextOldChecks ==
    \/ run_tests_call(MaxRuns)
    \/ \E start \in StartReadings, d \in ElapsedTicks : Old_run_tests_run(start, d)
    \/ \E r \in 0..NumObservers : run_tests_notify(r)
    \/ run_tests_file
    \/ run_tests_return

SpecOldChecks == InitOldChecks /\ [][NextOldChecks]_vars

(***************************************************************************)
(* SpecWhat: a TestFailure raised by one assertion call is held by a catch *)
(* clause (catch (const GenericTestFailure& failure), as in run_private)   *)
(* and what() is called on it a number of times.                           *)
(***************************************************************************)
MaxWhatCalls == 3

\* The failures the assertion calls raise.
RaisedFailures ==
    {Invoke(p) : p \in {q \in CheckProcs \cup ToleranceProcs \cup TextProcs :
                           Invoke(q).type = "TestFailure"}}

InitWhat ==
    /\ registry = <<>>
    /\ run_ = FALSE
    /\ exec_time_ms_accumulator_ = 0
    /\ tests_passed_ = <<>>
    /\ tests_failed_ = <<>>
    /\ tests_skipped_ = <<>>
    /\ tests_with_error_ = <<>>
    /\ list_observers_ = <<>>
    /\ pc = "idle"
    /\ idx = 0
    /\ runs = 0
    /\ escaped = FALSE
    /\ received = [o \in Observers |-> <<>>]
    /\ handle_hist = [o \in Observers |-> "never"]
    /\ executed = <<>>
    /\ cur = "A"
    /\ other = EmptyManager
    /\ failure \in RaisedFailures
    /\ whats = <<>>

\* failure.what(): returns the text and leaves message_ as the call made it.
TestFailure_what(max) ==
    /\ failure.type = "TestFailure"
    /\ Len(whats) < max
    /\ whats' = Append(whats, what(failure))
    /\ failure' = what_message_(failure)
    /\ UNCHANGED <<registry, run_, exec_time_ms_accumulator_, tests_passed_,
                   tests_failed_, tests_skipped_, tests_with_error_,
                   list_observers_, pc, idx, runs, escaped, received,
                   handle_hist, executed, cur, other>>

NextWhat == TestFailure_what(MaxWhatCalls)

SpecWhat == InitWhat /\ [][NextWhat]_vars

(***************************************************************************)
(* Vocabulary of the properties.                                           *)
(***************************************************************************)
Cases == 1..Len(registry)

Occurrences(s, i) == Cardinality({k \in 1..Len(s) : s[k] = i})

\* The bucket a status is filed into (none for NONE).
BucketFor(status) ==
    CASE status = "PASSED" -> tests_passed_
      [] status = "FAILED" -> tests_failed_
      [] status = "ERROR" -> tests_with_error_
      [] status = "SKIPPED" -> tests_skipped_
      [] OTHER -> <<>>

\* The step by which run_tests() returns to its caller.
run_tests_returns == pc = "loop" /\ pc' = "idle"

\* Case i has been through test->run() in the run in progress.
RanInThisRun(i) == pc # "idle" /\ (i < idx \/ (i = idx /\ pc # "loop"))

\* Number of cases for which notify() has returned in the run in progress.
Delivered == IF pc = "file" THEN idx ELSE idx - 1

\* The update() calls observer o got during the latest run_tests() call.
ThisRun(o) == SelectSeq(received[o], LAMBDA e : e.run = runs)

CasesOf(log) == [k \in 1..Len(log) |-> log[k].case]

Attached == {list_observers_[k] : k \in 1..Len(list_observers_)}

(***************************************************************************)
(* C1: before run_tests() is called every count accessor returns 0,        *)
(* however many cases are registered; when the single run_tests() returns, *)
(* the four bucket counts sum to getAllTestsCount, the number of           *)
(* registered cases.                                                       *)
(***************************************************************************)
AllCountsZero ==
    /\ getPassedCount = 0
    /\ getFailedCount = 0
    /\ getWithErrorCount = 0
    /\ getSkippedCount = 0
    /\ getAllTestsCount = 0

CountsSumToAll ==
    /\ getPassedCount + getFailedCount + getWithErrorCount + getSkippedCount
          = getAllTestsCount
    /\ getAllTestsCount = Len(registry)

C1_CountsZeroThenSumToAll ==
    /\ [](runs = 0 => AllCountsZero)
    /\ [][(runs = 1 /\ run_tests_returns) => CountsSumToAll']_vars

C1_Witness ==
    /\ runs = 1 /\ pc = "idle" /\ run_
    /\ Len(registry) = 2
    /\ getPassedCount = 1 /\ getWithErrorCount = 1
    /\ CountsSumToAll

(***************************************************************************)
(* C2: once run_tests() has completed, the four buckets partition the      *)
(* registered cases: every case is referenced exactly once, by the bucket  *)
(* of its status, and no bucket references anything else.                  *)
(***************************************************************************)
BucketsPartition ==
    /\ \A i \in Cases :
          /\ Occurrences(tests_passed_, i) + Occurrences(tests_failed_, i)
               + Occurrences(tests_with_error_, i) + Occurrences(tests_skipped_, i) = 1
          /\ Occurrences(BucketFor(registry[i].status_), i) = 1
    /\ \A b \in {tests_passed_, tests_failed_, tests_with_error_, tests_skipped_} :
          \A k \in 1..Len(b) : b[k] \in Cases

C2_BucketsPartitionOnceCompleted ==
    [][run_tests_returns => BucketsPartition']_vars

(***************************************************************************)
(* C3: a case whose procedure made an assertion call with a false          *)
(* predicate is FAILED after its run, never ERROR, for every assertion     *)
(* method.                                                                 *)
(***************************************************************************)
PredicateIsFalse(p) ==
    CASE p.method = "isTrue" -> p.expr = 0
      [] p.method = "isFalse" -> p.expr # 0
      [] p.method = "isEqualTo" -> p.expr # p.arg
      [] p.method = "isNotEqualTo" -> p.expr = p.arg
      [] p.method = "isNull" -> p.expr # 0
      [] p.method = "isNotNull" -> p.expr = 0
      [] p.method = "fail" -> TRUE
      [] p.method = "expectException" -> p.inner = "none" \/ ~IsA(p.inner, p.E)
      [] OTHER -> FALSE

C3_FalseAssertionIsFailed ==
    \A i \in Cases :
        LET t == registry[i]
        IN (t.kind = "Test" /\ t.calls > 0 /\ t.proc.op = "assert"
              /\ PredicateIsFalse(t.proc))
           => t.status_ = "FAILED"

C3_Witness ==
    \E i \in Cases :
        /\ registry[i].proc.method = "expectException"
        /\ registry[i].proc.inner = "std::runtime_error"
        /\ registry[i].calls > 0
        /\ registry[i].status_ = "FAILED"
        /\ i \in {tests_failed_[k] : k \in 1..Len(tests_failed_)}

(***************************************************************************)
(* C4: a case whose procedure raised something that is no assertion        *)
(* failure is ERROR after its run; error_ is what() of a std::exception    *)
(* and the fixed text otherwise; failure_reason_ is still empty.           *)
(***************************************************************************)
C4_OtherExceptionIsError ==
    \A i \in Cases :
        LET t == registry[i]
        IN (t.kind = "Test" /\ t.calls > 0 /\ t.proc.op = "throw")
           => /\ t.status_ = "ERROR"
              /\ t.error_ = IF IsA(t.proc.thrown, "std::exception")
                            THEN what(Raised(t.proc.thrown))
                            ELSE "Unkown error"
              /\ t.failure_reason_ = ""

C4_Witness ==
    \E i, j \in Cases :
        /\ registry[i].proc.thrown = "std::runtime_error"
        /\ registry[i].status_ = "ERROR"
        /\ registry[i].error_ = "what:std::runtime_error"
        /\ registry[j].proc.thrown = "int"
        /\ registry[j].status_ = "ERROR"
        /\ registry[j].error_ = "Unkown error"

(***************************************************************************)
(* C5: a case whose procedure returned without raising is PASSED after     *)
(* its run, its duration is not negative, and failure_reason_ and error_   *)
(* are still empty.                                                        *)
(***************************************************************************)
C5_ReturningIsPassed ==
    \A i \in Cases :
        LET t == registry[i]
        IN (t.kind = "Test" /\ t.calls > 0 /\ t.proc.op = "return")
           => /\ t.status_ = "PASSED"
              /\ t.exec_time_ms_ >= 0
              /\ t.failure_reason_ = ""
              /\ t.error_ = ""

C5_Witness ==
    \E i \in Cases :
        /\ registry[i].kind = "Test"
        /\ registry[i].proc.op = "return"
        /\ registry[i].calls > 0
        /\ registry[i].status_ = "PASSED"
        /\ registry[i].exec_time_ms_ = MaxElapsed

(***************************************************************************)
(* C6: the procedure of a case registered by skip_test is never invoked    *)
(* (its counter keeps its initial value), and the case is SKIPPED once     *)
(* run_tests() has run it, whatever its procedure does.                    *)
(***************************************************************************)
C6_SkippedNeverInvoked ==
    /\ [](\A i \in Cases :
             registry[i].kind = "SkippedTest"
             => /\ registry[i].calls = 0
                /\ registry[i].status_ \in {"NONE", "SKIPPED"}
                /\ (RanInThisRun(i) => registry[i].status_ = "SKIPPED"))
    /\ [][run_tests_returns
            => (\A i \in Cases :
                   registry[i].kind = "SkippedTest" => registry[i].status_ = "SKIPPED")']_vars

C6_Witness ==
    \E i \in Cases :
        /\ registry[i].kind = "SkippedTest"
        /\ registry[i].proc.op = "throw"
        /\ registry[i].calls = 0
        /\ registry[i].status_ = "SKIPPED"
        /\ run_ /\ pc = "idle"

(***************************************************************************)
(* C7: a skipped case's duration is zero after its run.                    *)
(***************************************************************************)
C7_SkippedDurationZero ==
    \A i \in Cases :
        (registry[i].kind = "SkippedTest" /\ registry[i].status_ = "SKIPPED")
        => registry[i].exec_time_ms_ = 0

(***************************************************************************)
(* C8: during a run_tests(), every attached observer has been given, after *)
(* the notify() of the k-th case, exactly the cases 1..k in that order,    *)
(* one update() each, skipped cases included; so exactly n when the loop   *)
(* over n cases is over.                                                   *)
(***************************************************************************)
C8_OneUpdatePerCaseInOrder ==
    pc # "idle"
    => \A o \in Attached : CasesOf(ThisRun(o)) = [k \in 1..Delivered |-> k]

C8_Witness ==
    /\ pc = "loop" /\ idx = Len(registry) + 1
    /\ Len(registry) = 2
    /\ \E o \in Attached :
          /\ CasesOf(ThisRun(o)) = <<1, 2>>
          /\ ThisRun(o)[1].status = "PASSED"
          /\ ThisRun(o)[2].status = "SKIPPED"

(***************************************************************************)
(* C9: a handle attached and then detached gets no update() from a later   *)
(* run_tests(), while every handle still attached gets one per case.       *)
(***************************************************************************)
C9_DetachedGetsNothing ==
    pc # "idle"
    => /\ \A h \in Observers : handle_hist[h] = "removed" => ThisRun(h) = <<>>
       /\ \A o \in Observers :
             handle_hist[o] \in {"added", "readded"}
             => Len(ThisRun(o)) = Delivered

C9_Witness ==
    /\ pc = "loop" /\ idx = Len(registry) + 1
    /\ Len(registry) = 2
    /\ \E h, o \in Observers :
          /\ handle_hist[h] = "removed"
          /\ ThisRun(h) = <<>>
          /\ handle_hist[o] = "added"
          /\ Len(ThisRun(o)) = 2

(***************************************************************************)
(* C10: whatever addObserver and removeObserver calls were made, a handle  *)
(* is in the set once if it is attached and not at all after one           *)
(* removeObserver; a handle attached several times gets one update() per   *)
(* case.                                                                   *)
(***************************************************************************)
C10_AttachIsIdempotent ==
    \A o \in Observers :
        /\ Occurrences(list_observers_, o)
              = IF handle_hist[o] \in {"added", "readded"} THEN 1 ELSE 0
        /\ \A k \in 1..Len(received[o]) : \A j \in 1..Len(received[o]) :
              (received[o][k].run = received[o][j].run
                 /\ received[o][k].case = received[o][j].case) => k = j

C10_Witness ==
    /\ pc = "loop" /\ idx = Len(registry) + 1
    /\ Len(registry) = 2
    /\ \E o \in Observers :
          /\ handle_hist[o] = "readded"
          /\ CasesOf(ThisRun(o)) = <<1, 2>>

(***************************************************************************)
(* C11: a case that ends FAILED or ERROR does not keep the later cases     *)
(* from running: when run_tests() returns, every registered case has been  *)
(* run by this call and has a status other than NONE, whatever the cases   *)
(* before it raised.                                                       *)
(***************************************************************************)
C11_FailureDoesNotAbortLaterCases ==
    [][run_tests_returns
         => (\A i \in Cases :
                /\ registry[i].status_ # "NONE"
                /\ \E k \in 1..Len(executed) : executed[k] = i)']_vars

C11_Witness ==
    /\ runs = 1 /\ pc = "idle" /\ run_
    /\ Len(registry) = 2
    /\ registry[1].status_ = "ERROR"
    /\ registry[2].status_ = "FAILED"
    /\ registry[2].calls = 1
    /\ executed = <<1, 2>>

(***************************************************************************)
(* C12: no exception leaves run_tests(), and every call of it ends with    *)
(* the scenario Completed (run_ set), whatever the procedures raise and    *)
(* whatever the attached observers do, an update() that raises included.   *)
(***************************************************************************)
C12_RunnerNeverRaises ==
    (runs > 0 /\ pc = "idle") => (~escaped /\ run_)

(***************************************************************************)
(* C13: whenever a run_tests() call returns, the first or a later one, the *)
(* four counts sum to the number of registered cases, no case is           *)
(* referenced twice by a bucket, and the total duration is the sum of the  *)
(* durations the cases have from this run.                                 *)
(***************************************************************************)
RECURSIVE DurationsFrom(_)
DurationsFrom(i) ==
    IF i > Len(registry) THEN 0 ELSE registry[i].exec_time_ms_ + DurationsFrom(i + 1)

NoCaseTwice ==
    \A i \in Cases :
        \A b \in {tests_passed_, tests_failed_, tests_with_error_, tests_skipped_} :
            Occurrences(b, i) <= 1

C13_CountsReflectLatestRun ==
    [][run_tests_returns
         => (/\ CountsSumToAll
             /\ NoCaseTwice
             /\ getAllTestsExecTimeMs = DurationsFrom(1))']_vars

(***************************************************************************)
(* C14: over any sequence of run_tests() calls, the procedure of each      *)
(* registered case is invoked at most once.                                *)
(***************************************************************************)
C14_InvokedAtMostOnce ==
    \A i \in Cases : registry[i].calls <= 1

(***************************************************************************)
(* C15: whenever run_ is false, before run_tests() as well as while it is  *)
(* in progress (the states from which a procedure or an update() would     *)
(* read), every count accessor returns 0 and getAllTestsExecTimeMs returns *)
(* zero, whatever the buckets and the accumulator hold by then.            *)
(***************************************************************************)
C15_CountsZeroUntilCompleted ==
    ~run_ => (AllCountsZero /\ getAllTestsExecTimeMs = 0)

C15_Witness ==
    /\ ~run_ /\ pc = "notify" /\ idx = 2
    /\ Len(tests_passed_) = 1
    /\ exec_time_ms_accumulator_ > 0
    /\ getPassedCount = 0
    /\ getAllTestsCount = 0
    /\ getAllTestsExecTimeMs = 0

(***************************************************************************)
(* C16: whenever run_ is false, before run_tests() as well as while it is  *)
(* in progress, every list accessor returns an empty list, however many    *)
(* cases are registered.                                                   *)
(***************************************************************************)
C16_ListsEmptyUntilCompleted ==
    ~run_ => /\ getPassedTests = <<>>
             /\ getFailedTests = <<>>
             /\ getSkippedTests = <<>>
             /\ getWithErrorTests = <<>>
             /\ getAllTests = <<>>

(***************************************************************************)
(* C17: within each bucket the cases are in registration order: of two     *)
(* entries of the same bucket that refer to different cases, one comes     *)
(* before the other in the bucket iff its case was registered before the   *)
(* other's.                                                                *)
(***************************************************************************)
C17_BucketsInRegistrationOrder ==
    \A b \in {tests_passed_, tests_failed_, tests_with_error_, tests_skipped_} :
        \A p, q \in 1..Len(b) : b[p] # b[q] => ((p < q) <=> (b[p] < b[q]))

(***************************************************************************)
(* C18: the registry list is append-only and keeps its order: a step       *)
(* either appends one case at the end and leaves the cases before it as    *)
(* they were, or keeps every case at its position (run_tests() only        *)
(* writes the outcome fields of a case); and run_tests() calls run() on    *)
(* the cases in the order of the list, first to last.                      *)
(***************************************************************************)
SameCase(a, b) == a.kind = b.kind /\ a.proc = b.proc

C18_RegistryAppendOnlyInOrder ==
    /\ [][\/ /\ Len(registry') = Len(registry) + 1
              /\ \A i \in Cases : registry'[i] = registry[i]
           \/ /\ Len(registry') = Len(registry)
              /\ \A i \in Cases : SameCase(registry'[i], registry[i])]_vars
    /\ [](/\ Len(executed) <= Len(registry)
          /\ executed = [k \in 1..Len(executed) |-> k])

C18_Witness ==
    /\ run_ /\ pc = "idle" /\ runs = 2
    /\ Len(registry) = 2
    /\ registry[1].kind = "SkippedTest"
    /\ registry[2].kind = "Test" /\ registry[2].proc.op = "throw"
    /\ registry[2].calls = 1
    /\ executed = <<1, 2>>

(***************************************************************************)
(* C19: a scenario for whose key nothing was ever registered (the map has  *)
(* no entry, operator[] yields an empty list) runs like an empty one:      *)
(* run_tests() raises nothing, calls run() on nothing, gives no observer   *)
(* an update(), sets run_, and afterwards all counts are 0 and all lists   *)
(* are empty.                                                              *)
(***************************************************************************)
C19_UnregisteredKeyRunsAsEmpty ==
    Len(registry) = 0
    => /\ pc \in {"idle", "loop"}
       /\ executed = <<>>
       /\ \A o \in Observers : received[o] = <<>>
       /\ ~escaped
       /\ (runs > 0 /\ pc = "idle")
            => /\ run_
               /\ getPassedCount = 0 /\ getFailedCount = 0
               /\ getSkippedCount = 0 /\ getWithErrorCount = 0
               /\ getAllTestsCount = 0 /\ getAllTestsExecTimeMs = 0
               /\ getPassedTests = <<>> /\ getFailedTests = <<>>
               /\ getSkippedTests = <<>> /\ getWithErrorTests = <<>>
               /\ getAllTests = <<>>

C19_Witness ==
    /\ Len(registry) = 0
    /\ runs = 1 /\ pc = "idle" /\ run_
    /\ Len(list_observers_) = 2
    /\ \A o \in Observers : received[o] = <<>>
    /\ getAllTests = <<>>

(***************************************************************************)
(* C20: expectException<E> raises no failure iff the captured procedure    *)
(* raises an exception whose kind is exactly E: a case whose procedure is  *)
(* one expectException<E> call is PASSED after its run when the kind       *)
(* raised is E, and FAILED when it is any other kind (a kind derived from  *)
(* E included) or when nothing is raised.                                  *)
(***************************************************************************)
C20_ExpectExceptionExactKind ==
    \A i \in Cases :
        LET t == registry[i]
        IN (t.kind = "Test" /\ t.calls > 0 /\ t.proc.method = "expectException")
           => /\ (t.proc.inner = t.proc.E) => t.status_ = "PASSED"
              /\ (t.proc.inner # t.proc.E) => t.status_ = "FAILED"

(***************************************************************************)
(* C21: the tolerance forms of isEqualTo and isNotEqualTo reject a         *)
(* negative tolerance: a case whose procedure is one such check with       *)
(* tolerance < 0 is not PASSED after its run (the check does not succeed   *)
(* as if the tolerance were its absolute value).                           *)
(***************************************************************************)
C21_NegativeToleranceRejected ==
    \A i \in Cases :
        LET t == registry[i]
        IN (t.calls > 0 /\ t.proc.overload = "double" /\ t.proc.tolerance < 0)
           => t.status_ # "PASSED"

(***************************************************************************)
(* C22: a case whose procedure is one text isEqualTo(expected, ignoreCase) *)
(* is FAILED iff the two texts differ, compared as they are when           *)
(* ignoreCase is false and lower-cased when it is true, and PASSED         *)
(* otherwise; so two texts that differ only by the case of letters give    *)
(* FAILED with ignoreCase = false and PASSED with ignoreCase = true.       *)
(***************************************************************************)
SameLetter(c, d) ==
    \/ c = d
    \/ c \in 65..90 /\ d = c + 32
    \/ d \in 65..90 /\ c = d + 32

DifferByCaseOnly(a, b) ==
    /\ a # b
    /\ Len(a) = Len(b)
    /\ \A k \in 1..Len(a) : SameLetter(a[k], b[k])

C22_TextEqualityAndIgnoreCase ==
    \A i \in Cases :
        LET t == registry[i]
            p == t.proc
        IN (t.calls > 0 /\ p.method = "isEqualTo"
              /\ p.overload \in {"const char*", "std::string"})
           => /\ t.status_ \in {"PASSED", "FAILED"}
              /\ (~p.ignoreCase => (t.status_ = "FAILED" <=> p.text # p.textarg))
              /\ (p.ignoreCase
                    => (t.status_ = "FAILED" <=> ToLower(p.text) # ToLower(p.textarg)))
              /\ (DifferByCaseOnly(p.text, p.textarg)
                    => t.status_ = IF p.ignoreCase THEN "PASSED" ELSE "FAILED")

C22_Witness ==
    \E i \in Cases :
        /\ registry[i].calls > 0
        /\ registry[i].proc.method = "isEqualTo"
        /\ registry[i].proc.overload = "const char*"
        /\ registry[i].proc.text = <<97, 98>>
        /\ registry[i].proc.textarg = <<65, 66>>
        /\ registry[i].proc.ignoreCase
        /\ registry[i].status_ = "PASSED"

(***************************************************************************)
(* C23: an assertion check changes nothing but possibly raises: after the  *)
(* procedure was called, the variable of the caller it handed to           *)
(* AssertThat still has the value it had, whether the check failed or not. *)
(***************************************************************************)
C23_ChecksLeaveValueUnchanged ==
    \A i \in Cases : registry[i].captured = registry[i].proc.text

(***************************************************************************)
(* C24: in every state in which the scenario is Completed (run_ is set and *)
(* no run_tests() is in progress), whatever add_test, skip_test and        *)
(* run_tests calls were made and in whatever order, the four bucket counts *)
(* sum to getAllTestsCount.                                                *)
(***************************************************************************)
C24_LateRegistrationKeepsAggregates ==
    (run_ /\ pc = "idle")
    => getPassedCount + getFailedCount + getWithErrorCount + getSkippedCount
          = getAllTestsCount

(***************************************************************************)
(* C25: a case whose procedure is a chain of checks is FAILED iff the      *)
(* predicate of at least one check is false for the value that check was   *)
(* given, and PASSED iff all are true; the outcome depends on the checks   *)
(* only, not on their order in the chain.                                  *)
(***************************************************************************)
C25_ChainFailsIffSomeCheckFalse ==
    \A i \in Cases :
        LET t == registry[i]
            c == t.proc.chain
        IN (t.calls > 0 /\ t.proc.op = "chain")
           => /\ t.status_ = "FAILED" <=> \E k \in 1..Len(c) : PredicateIsFalse(c[k])
              /\ t.status_ = "PASSED" <=> \A k \in 1..Len(c) : ~PredicateIsFalse(c[k])

C25_Witness ==
    \E i \in Cases :
        LET c == registry[i].proc.chain
        IN /\ registry[i].calls > 0
           /\ registry[i].proc.op = "chain"
           /\ Len(c) = 3
           /\ ~PredicateIsFalse(c[1]) /\ ~PredicateIsFalse(c[2])
           /\ c[2].method = "isTrue"
           /\ PredicateIsFalse(c[3])
           /\ registry[i].status_ = "FAILED"

(***************************************************************************)
(* C26: when notify() is called for case i (the point at which every       *)
(* update() for that case happens), case i has its terminal status, it is  *)
(* referenced by no bucket yet, and the buckets reference exactly the      *)
(* cases before i.                                                         *)
(***************************************************************************)
Filed ==
    UNION {{b[k] : k \in 1..Len(b)} :
              b \in {tests_passed_, tests_failed_, tests_with_error_, tests_skipped_}}

C26_NotifiedBeforeFiled ==
    pc = "notify"
    => /\ registry[idx].status_ # "NONE"
       /\ idx \notin Filed
       /\ Filed = 1..(idx - 1)

(***************************************************************************)
(* C27: run_ is false from construction until a run_tests() call has gone  *)
(* through its loop; the only step that sets it is the one after the loop  *)
(* has called run() on every registered case; no step ever clears it.      *)
(***************************************************************************)
C27_RunFlagOnlyRises ==
    /\ [](runs = 0 => ~run_)
    /\ [][run_ => run_']_vars
    /\ [][(~run_ /\ run_')
            => (/\ pc = "loop" /\ pc' = "idle"
                /\ idx > Len(registry)
                /\ executed = [k \in 1..Len(registry) |-> k])]_vars

C27_Witness ==
    /\ run_
    /\ runs = 2 /\ pc = "notify" /\ idx = 1
    /\ Len(registry) = 2

(***************************************************************************)
(* C28: once a case has a status other than NONE, no later step changes    *)
(* that status, whatever operations follow.                                *)
(***************************************************************************)
C28_StatusAssignedOnce ==
    [][\A i \in Cases :
          registry[i].status_ # "NONE" => registry'[i].status_ = registry[i].status_]_vars

(***************************************************************************)
(* C29: when run_tests() returns, getAllTestsExecTimeMs() is the sum of    *)
(* getExecTimeMs() over the registered cases; and notify() leaves the      *)
(* duration of every case as run() set it.                                 *)
(***************************************************************************)
C29_TotalIsSumOfDurations ==
    /\ [][run_tests_returns => (getAllTestsExecTimeMs = DurationsFrom(1))']_vars
    /\ [][pc = "notify"
            => \A i \in Cases : registry'[i].exec_time_ms_ = registry[i].exec_time_ms_]_vars

(***************************************************************************)
(* C30: in the older generation, the procedure of a case built by          *)
(* make_skipped_test and stored in the registry is never invoked, and the  *)
(* case is SKIPPED once run_tests() has run it.                            *)
(***************************************************************************)
C30_OldSkippedStaysSkipped ==
    \A i \in Cases :
        registry[i].made = "SkippedTest"
        => /\ registry[i].calls = 0
           /\ registry[i].status_ \in {"NONE", "SKIPPED"}

(***************************************************************************)
(* C31: in the older generation, a case whose procedure is one             *)
(* Assert::ExpectException<E>(f) call with an f that returns without       *)
(* raising is FAILED after its run.                                        *)
(***************************************************************************)
C31_OldExpectExceptionNothingRaised ==
    \A i \in Cases :
        LET t == registry[i]
        IN (t.calls > 0 /\ t.proc.op = "Assert::ExpectException"
              /\ t.proc.inner = "none")
           => t.status_ = "FAILED"

(***************************************************************************)
(* C32: in the older generation, a case whose procedure raised a value     *)
(* that is no std::exception is ERROR with the fixed unknown-error text    *)
(* after its run, and the exception does not leave run_tests().            *)
(***************************************************************************)
C32_OldUnknownExceptionIsError ==
    \A i \in Cases :
        LET t == registry[i]
        IN (t.calls > 0 /\ t.proc.op = "throw"
              /\ ~IsA(t.proc.thrown, "std::exception"))
           => /\ t.status_ = "ERROR"
              /\ t.error_ = "Unkown error"
              /\ ~escaped

(***************************************************************************)
(* C33: scenarios are isolated: whatever is done with the scenario at      *)
(* hand (registration, attaching and detaching observers, running) leaves  *)
(* the other scenario's list, cases, run flag, buckets, total duration and *)
(* observer set as they were, so that the caller, turning to the other     *)
(* scenario, finds it exactly as it was left.                              *)
(***************************************************************************)
C33_ScenariosAreIsolated ==
    /\ [][cur' = cur => other' = other]_vars
    /\ [][cur' # cur => ManagerAtHand' = other]_vars

C33_Witness ==
    /\ cur = "B" /\ pc = "idle"
    /\ other.run_ /\ Len(other.registry) = 1
    /\ other.registry[1].status_ = "ERROR"
    /\ other.tests_with_error_ = <<1>>
    /\ other.list_observers_ = <<1>>
    /\ ~run_ /\ Len(registry) = 1
    /\ registry[1].status_ = "NONE"
    /\ list_observers_ = <<>>

(***************************************************************************)
(* C34: what() is idempotent: every call of what() on the same TestFailure *)
(* returns the same text, the one the first call returned (the message    *)
(* followed by the reached/expected rendering once).                       *)
(***************************************************************************)
C34_WhatIsIdempotent ==
    \A k \in 1..Len(whats) : whats[k] = whats[1]

(***************************************************************************)
(* C35: an assertion failure raised inside the procedure wrapped by        *)
(* expectException<E> never makes the check succeed: a case whose          *)
(* procedure is one expectException<E> call around a procedure that raises *)
(* a TestFailure is FAILED after its run, for every E.                     *)
(***************************************************************************)
C35_WrappedFailureNeverSucceeds ==
    \A i \in Cases :
        LET t == registry[i]
        IN (t.kind = "Test" /\ t.calls > 0 /\ t.proc.method = "expectException"
              /\ t.proc.inner = "TestFailure")
           => t.status_ = "FAILED"

(***************************************************************************)
(* C36: at every state and for every case the stored messages agree with   *)
(* the status: failure_reason_ is non-empty only when the status is FAILED *)
(* and error_ is non-empty only when the status is ERROR, also after       *)
(* repeated runs in which the outcome of a procedure differs.              *)
(***************************************************************************)
C36_MessagesAgreeWithStatus ==
    \A i \in Cases :
        /\ registry[i].failure_reason_ # "" => registry[i].status_ = "FAILED"
        /\ registry[i].error_ # "" => registry[i].status_ = "ERROR"

(***************************************************************************)
(* C37: isEqualTo and isNotEqualTo are exact complements: for every        *)
(* captured value, compared value, tolerance and ignoreCase flag, exactly  *)
(* one of the two raises a TestFailure when given the same arguments; a    *)
(* case whose procedure is one of the two calls is FAILED after its run    *)
(* exactly when the other call with these arguments raises nothing.        *)
(***************************************************************************)
OtherMethod(p) ==
    [p EXCEPT !.method = IF @ = "isEqualTo" THEN "isNotEqualTo" ELSE "isEqualTo"]

C37_EqualAndNotEqualAreComplements ==
    \A i \in Cases :
        LET t == registry[i]
        IN (t.calls > 0 /\ t.proc.op = "assert" /\ t.proc.method \in BinaryMethods)
           => ((t.status_ = "FAILED") <=> (Invoke(OtherMethod(t.proc)) = NoExc))

(***************************************************************************)
(* C38: within one procedure the first assertion whose predicate is false  *)
(* ends the procedure: after the run of a case whose procedure is a series *)
(* of checks with a false one among them, the checks evaluated are those   *)
(* up to the first false one and no later one, the case is FAILED, and its *)
(* failure_reason_ is the message of that check, followed by the location  *)
(* tag exactly when the check was given a LineInfo, and by the rendering   *)
(* of its values.                                                          *)
(***************************************************************************)
FirstFalse(c) ==
    CHOOSE k \in 1..Len(c) :
        /\ PredicateIsFalse(c[k])
        /\ \A j \in 1..(k - 1) : ~PredicateIsFalse(c[j])

C38_FirstFalseAssertionEndsProcedure ==
    \A i \in Cases :
        LET t == registry[i]
            c == t.proc.chain
        IN (t.calls > 0 /\ t.proc.op = "chain"
              /\ \E k \in 1..Len(c) : PredicateIsFalse(c[k]))
           => LET f == c[FirstFalse(c)]
                  tag == IF f.line = 1 THEN "\t(" \o LineInfoText \o ")" ELSE ""
              IN /\ t.evaluated = FirstFalse(c)
                 /\ t.status_ = "FAILED"
                 /\ t.failure_reason_ =
                        f.message \o tag \o "\n" \o AsserterExpression(f).info

C38_Witness ==
    \E i \in Cases :
        LET c == registry[i].proc.chain
        IN /\ registry[i].calls > 0
           /\ registry[i].proc.op = "chain"
           /\ Len(c) = 3
           /\ ~PredicateIsFalse(c[1])
           /\ PredicateIsFalse(c[2]) /\ c[2].line = 1 /\ c[2].message = "second"
           /\ PredicateIsFalse(c[3]) /\ c[3].line = 0
           /\ registry[i].evaluated = 2
           /\ registry[i].failure_reason_ =
                 "second\t(t.cpp:7 f)\n\t\t\t[REACHED] 0\n\t\t\t[EXPECTED EQUAL TO] 1\n"

(***************************************************************************)
(* C39: run_tests() terminates: when every procedure and every update()    *)
(* returns or raises and no case is registered during the run, each call   *)
(* of run_tests() comes to its end with run_ = TRUE, having returned       *)
(* normally after test->run() was called once on each registered case.     *)
(***************************************************************************)
C39_RunReachesCompleted ==
    \A n \in 1..ObsMaxRuns :
        (pc # "idle" /\ runs = n)
            ~> (/\ pc = "idle" /\ runs = n
                /\ run_ /\ ~escaped
                /\ executed = [k \in 1..Len(registry) |-> k])

====
